---- MODULE Spec2Model ----
(***************************************************************************)
(* Model of skmultilearn/base.py: MLClassifierBase and RepeatClassifier.   *)
(*                                                                         *)
(* One classifier instance (self) is driven by a caller that invokes its   *)
(* methods.  Every method is a pure operator from the instance (and the    *)
(* arguments) to a call result: how the call ended (return or raise), the  *)
(* exception or value the caller sees, and the instance afterwards.  The   *)
(* variable last records the most recent call, fitlog the fit calls so far.*)
(*                                                                         *)
(* Python values that only flow through the code (estimator references,    *)
(* parameter values) are modelled by strings naming them.                  *)
(***************************************************************************)
EXTENDS Integers, Sequences, FiniteSets

VARIABLES
    py,       \* major version of the interpreter running the module (2 or 3)
    self,     \* the instance: its class and its attribute dictionary
    last,     \* the most recent call: operation, arguments, instance before, outcome
    fitlog,   \* the fit calls on the instance: any made, any returned, row 0 of the latest y
    input     \* the arguments the caller holds for generate_data_subset (<<>>: none)

vars == <<py, self, last, fitlog, input>>

----------------------------------------------------------------------------
(* Bounds of the model *)

MaxRows == 2        \* matrices passed to generate_data_subset have at most this many rows
MaxCols == 2        \* ... and at most this many columns
MaxSubsetLen == 2   \* subsets passed to generate_data_subset have at most this many indices
MaxLabelRows == 2   \* label matrices passed to fit have at most this many rows
MaxLabelCols == 1   \* ... and at most this many columns
MaxSamples == 1     \* feature matrices have at most this many samples

----------------------------------------------------------------------------
(* Sparse binary matrices (scipy.sparse).                                  *)
(* A matrix is stored compressed along its major axis: major[k] is the set *)
(* of minor indices (0-based) of the ones of the k-th major line.  For     *)
(* "csr" the major lines are the rows, for "csc" the columns.              *)

Formats == {"csr", "csc"}

MajorLen(fmt, nrows, ncols) == IF fmt = "csr" THEN nrows ELSE ncols
MinorLen(fmt, nrows, ncols) == IF fmt = "csr" THEN ncols ELSE nrows

\* the entry at row i, column j (0-based) of m
Entry(m, i, j) ==
    IF m.fmt = "csr"
    THEN IF j \in m.major[i + 1] THEN 1 ELSE 0
    ELSE IF i \in m.major[j + 1] THEN 1 ELSE 0

\* the matrices of at most maxr rows and maxc columns, in either format
MatricesUpTo(maxr, maxc) ==
    UNION { UNION { { [fmt |-> f, nrows |-> r, ncols |-> c, major |-> m] :
                        m \in [1..MajorLen(f, r, c) -> SUBSET (0..MinorLen(f, r, c) - 1)] } :
                    f \in Formats } :
            <<r, c>> \in (0..maxr) \X (0..maxc) }

\* the y a caller may pass to generate_data_subset, and to fit
Matrices == MatricesUpTo(MaxRows, MaxCols)
LabelMatrices == MatricesUpTo(MaxLabelRows, MaxLabelCols)

\* row i (0-based) of m, as the sequence of its entries
DenseRow(m, i) == [j \in 1..m.ncols |-> Entry(m, i, j - 1)]

\* column j (0-based) of m, as the sequence of its entries
DenseCol(m, j) == [i \in 1..m.nrows |-> Entry(m, i - 1, j)]

\* y.tocsr(): the same matrix compressed by rows
tocsr(m) ==
    IF m.fmt = "csr" THEN m
    ELSE [fmt |-> "csr", nrows |-> m.nrows, ncols |-> m.ncols,
          major |-> [i \in 1..m.nrows |->
                        {j \in 0..m.ncols - 1 : (i - 1) \in m.major[j + 1]}]]

\* tocsc gone wrong: the row storage relabelled as column storage, which transposes
tocsc_relabelled(m) ==
    IF m.fmt = "csc" THEN m
    ELSE [fmt |-> "csc", nrows |-> m.ncols, ncols |-> m.nrows, major |-> m.major]

\* y.tocsc(): the same matrix compressed by columns
tocsc(m) ==
    IF m.fmt = "csc" THEN m
    ELSE [fmt |-> "csc", nrows |-> m.nrows, ncols |-> m.ncols,
          major |-> [j \in 1..m.ncols |->
                        {i \in 0..m.nrows - 1 : (j - 1) \in m.major[i + 1]}]]

\* an index into an axis of length n: negative indices count from the end
IndexInRange(k, n) == -n <= k /\ k < n
WrapIndex(k, n) == IF k < 0 THEN k + n ELSE k

\* how a call ends: a value returned or an exception raised, and the instance afterwards
Return(obj, v) == [outcome |-> "return", exc |-> "", val |-> v, self |-> obj]
Raise(obj, e) == [outcome |-> "raise", exc |-> e, val |-> "None", self |-> obj]

\* m[subset, :] on a csr matrix: the listed rows, in the order listed
IndexRows(m, subset) ==
    IF \E k \in 1..Len(subset) : ~IndexInRange(subset[k], m.nrows)
    THEN [raised |-> TRUE, exc |-> "IndexError", val |-> "None"]
    ELSE [raised |-> FALSE, exc |-> "",
          val |-> [fmt |-> "csr", nrows |-> Len(subset), ncols |-> m.ncols,
                   major |-> [k \in 1..Len(subset) |->
                                 m.major[WrapIndex(subset[k], m.nrows) + 1]]]]

\* m[:, subset] on a csc matrix: the listed columns, in the order listed
IndexCols(m, subset) ==
    IF \E k \in 1..Len(subset) : ~IndexInRange(subset[k], m.ncols)
    THEN [raised |-> TRUE, exc |-> "IndexError", val |-> "None"]
    ELSE [raised |-> FALSE, exc |-> "",
          val |-> [fmt |-> "csc", nrows |-> m.nrows, ncols |-> Len(subset),
                   major |-> [k \in 1..Len(subset) |->
                                 m.major[WrapIndex(subset[k], m.ncols) + 1]]]]

----------------------------------------------------------------------------
(* Python values that flow through the code unexamined *)

\* inner estimators a caller may wrap; "None" is the constructor's default
Estimators == {"None", "SVC"}

\* hasattr(classifier, 'get_params'): the scikit-learn estimators have it
HasGetParams(c) == c = "SVC"

\* classifier.get_params() of the inner estimator: its own parameters
InnerParams(c) ==
    IF c = "SVC" THEN [C |-> "1.0", kernel |-> "rbf"] ELSE <<>>

\* values a caller may pass for a parameter
ParamValues == {"True", "SVC"}

\* keyword names a caller may pass to set_params
ParamNames == {"classifier", "require_dense"}

\* the **parameters dictionaries a caller may pass to set_params
ParamDicts == UNION { [D -> ParamValues] : D \in SUBSET ParamNames }

\* feature matrices X: dense (array, list) or sparse, with n samples
FeatureMatrices == [sparse : BOOLEAN, n : 0..MaxSamples]

\* indices a caller may list in a subset, some of them out of range
IndexValues == -1..((IF MaxRows > MaxCols THEN MaxRows ELSE MaxCols) - 1)

Subsets == UNION { [1..n -> IndexValues] : n \in 0..MaxSubsetLen }

\* axis arguments a caller may pass
AxisValues == {0, 1, 2}

----------------------------------------------------------------------------
(* Name and attribute lookup *)

\* names bound at module level by the imports and the class statements
ModuleGlobals ==
    {"copy", "np", "get_matrix_in_format", "issparse", "csr_matrix",
     "MLClassifierBase", "RepeatClassifier"}

\* builtin names the module uses; xrange is a builtin of Python 2 only
Builtins(version) ==
    {"object", "super", "dict", "hasattr", "len", "None", "NotImplementedError"}
        \cup (IF version = 2 THEN {"xrange"} ELSE {})

\* whether evaluating the name finds a binding (else NameError)
Bound(name, locals, version) ==
    name \in locals \cup ModuleGlobals \cup Builtins(version)

\* attributes the classes define (methods), inherited ones included
ClassAttrs(cls) ==
    {"generate_data_subset", "ensure_1d", "fit", "predict", "get_params", "set_params"}

\* whether obj.name finds an attribute (else AttributeError)
HasAttr(obj, name) ==
    \/ name \in ClassAttrs(obj.cls)
    \/ name \in {"classifier", "require_dense"}
    \/ name = "value_to_repeat" /\ obj.value_to_repeat.set

\* value[...]: bound methods are not subscriptable
GetItem(kind) ==
    IF kind = "method" THEN [raised |-> TRUE, exc |-> "TypeError", val |-> "None"]
    ELSE [raised |-> FALSE, exc |-> "", val |-> "None"]

\* len(X): a sparse matrix refuses len()
PyLen(X) ==
    IF X.sparse THEN [raised |-> TRUE, exc |-> "TypeError", val |-> 0]
    ELSE [raised |-> FALSE, exc |-> "", val |-> X.n]

----------------------------------------------------------------------------
(* MLClassifierBase *)

Unset == [set |-> FALSE, val |-> "None"]

\* MLClassifierBase.__init__(classifier, require_dense)
MLClassifierBase_init(cls, classifier, require_dense) ==
    [cls |-> cls, classifier |-> classifier, require_dense |-> require_dense,
     value_to_repeat |-> Unset]

\* fit gone wrong: the abstract method returns self instead of raising
MLClassifierBase_fit_silent(obj, X, y) == Return(obj, "self")

\* MLClassifierBase.fit: abstract
MLClassifierBase_fit(obj, X, y) == Raise(obj, "NotImplementedError")

\* MLClassifierBase.predict: abstract
MLClassifierBase_predict(obj, X) == Raise(obj, "NotImplementedError")

\* generate_data_subset gone wrong: the two axis tests exchanged
generate_data_subset_swapped(obj, y, subset, axis) ==
    IF axis = 0
    THEN LET r == IndexCols(tocsc(y), subset)
         IN IF r.raised THEN Raise(obj, r.exc) ELSE Return(obj, r.val)
    ELSE IF axis = 1
    THEN LET r == IndexRows(tocsr(y), subset)
         IN IF r.raised THEN Raise(obj, r.exc) ELSE Return(obj, r.val)
    ELSE Return(obj, "None")

\* MLClassifierBase.generate_data_subset(y, subset, axis)
generate_data_subset(obj, y, subset, axis) ==
    IF axis = 1
    THEN LET r == IndexCols(tocsc(y), subset)
         IN IF r.raised THEN Raise(obj, r.exc) ELSE Return(obj, r.val)
    ELSE IF axis = 0
    THEN LET r == IndexRows(tocsr(y), subset)
         IN IF r.raised THEN Raise(obj, r.exc) ELSE Return(obj, r.val)
    ELSE Return(obj, "None")

\* get_params gone wrong: the deep branch taken whatever deep is
get_params_always_deep(obj, deep) ==
    LET out == [classifier |-> obj.classifier, require_dense |-> obj.require_dense]
    IN IF HasGetParams(obj.classifier)
       THEN Raise(obj, "NameError")
       ELSE Return(obj, out)

\* MLClassifierBase.get_params(deep)
get_params(obj, deep) ==
    LET out == [classifier |-> obj.classifier, require_dense |-> obj.require_dense]
    IN IF deep /\ HasGetParams(obj.classifier)
       THEN \* `value.get_params()`: no scope of get_params binds the name value
            Raise(obj, "NameError")
       ELSE Return(obj, out)

\* MLClassifierBase.set_params(**parameters)
set_params(obj, parameters) ==
    IF DOMAIN parameters = {}
    THEN Return(obj, "self")
    ELSE \* the loop's first pass looks up self.setattr, which nothing defines
         IF ~HasAttr(obj, "setattr") THEN Raise(obj, "AttributeError")
         ELSE Return(obj, "self")

----------------------------------------------------------------------------
(* RepeatClassifier *)

\* RepeatClassifier.__init__(value_to_repeat): the argument is not stored
RepeatClassifier_init(value_to_repeat) ==
    MLClassifierBase_init("RepeatClassifier", "None", "False")

\* RepeatClassifier.fit(X, y)
RepeatClassifier_fit(obj, X, y) ==
    \* `y.tocsr[0,:]` subscripts the bound method tocsr itself, not its result
    LET item == GetItem("method")
    IN IF item.raised THEN Raise(obj, item.exc)
       ELSE \* value_to_repeat is assigned, then np.full(y) lacks its fill value
            Raise([obj EXCEPT !.value_to_repeat = [set |-> TRUE, val |-> item.val]],
                  "TypeError")

\* RepeatClassifier.predict(X)
RepeatClassifier_predict(obj, X, version) ==
    IF ~Bound("xrange", {"self", "X"}, version) THEN Raise(obj, "NameError")
    ELSE LET n == PyLen(X)
         IN IF n.raised THEN Raise(obj, n.exc)
            ELSE IF n.val = 0 THEN Return(obj, <<>>)
            ELSE IF ~HasAttr(obj, "value_to_repeat") THEN Raise(obj, "AttributeError")
            ELSE Return(obj, [i \in 1..n.val |-> obj.value_to_repeat.val])

----------------------------------------------------------------------------
(* The caller: construction, then any sequence of method calls *)

NoCall(obj) ==
    [op |-> "init", args |-> <<>>, pre |-> obj, outcome |-> "return", exc |-> "",
     val |-> "None"]

Call(op, args, pre, res) ==
    [op |-> op, args |-> args, pre |-> pre, outcome |-> res.outcome, exc |-> res.exc,
     val |-> res.val]

\* RepeatClassifier's constructor argument: omitted (<<>>) or a label row (<<row>>)
CtorValues == {<<>>} \cup {<<m>> : m \in {r \in LabelMatrices : r.nrows = 1}}

NoFit == [called |-> FALSE, returned |-> FALSE, row0 |-> <<>>]

\* a freshly constructed instance of either class
Constructed ==
    /\ py \in {2, 3}
    /\ \/ \E c \in Estimators, d \in {"True", "False"} :
              self = MLClassifierBase_init("MLClassifierBase", c, d)
       \/ \E v \in CtorValues : self = RepeatClassifier_init(v)
    /\ last = NoCall(self)
    /\ fitlog = NoFit

Init == Constructed /\ input = <<>>

\* self.fit(X, y), dispatched on the instance's class
Fit(X, y) ==
    LET res == IF self.cls = "RepeatClassifier"
               THEN RepeatClassifier_fit(self, X, y)
               ELSE MLClassifierBase_fit(self, X, y)
    IN /\ self' = res.self
       /\ last' = Call("fit", [X |-> X, y |-> y], self, res)
       /\ fitlog' = [called |-> TRUE,
                     returned |-> fitlog.returned \/ res.outcome = "return",
                     row0 |-> IF y.nrows > 0 THEN <<DenseRow(y, 0)>> ELSE <<>>]
       /\ UNCHANGED <<py, input>>

\* self.predict(X), dispatched on the instance's class
Predict(X) ==
    LET res == IF self.cls = "RepeatClassifier"
               THEN RepeatClassifier_predict(self, X, py)
               ELSE MLClassifierBase_predict(self, X)
    IN /\ self' = res.self
       /\ last' = Call("predict", [X |-> X], self, res)
       /\ UNCHANGED <<py, fitlog, input>>

\* self.get_params(deep)
GetParams(deep) ==
    LET res == get_params(self, deep)
    IN /\ self' = res.self
       /\ last' = Call("get_params", [deep |-> deep], self, res)
       /\ UNCHANGED <<py, fitlog, input>>

\* self.set_params(**parameters)
SetParams(parameters) ==
    LET res == set_params(self, parameters)
    IN /\ self' = res.self
       /\ last' = Call("set_params", [parameters |-> parameters], self, res)
       /\ UNCHANGED <<py, fitlog, input>>

Next ==
    \/ \E X \in FeatureMatrices, y \in LabelMatrices : Fit(X, y)
    \/ \E X \in FeatureMatrices : Predict(X)
    \/ \E deep \in BOOLEAN : GetParams(deep)
    \/ \E parameters \in ParamDicts : SetParams(parameters)

Spec == Init /\ [][Next]_vars

----------------------------------------------------------------------------
(* The label-matrix subsetting on its own: the caller holds a y, a subset  *)
(* and an axis, any within the bounds, and calls generate_data_subset.     *)

InitSubset ==
    /\ py \in {2, 3}
    /\ self \in {MLClassifierBase_init("MLClassifierBase", "None", "False"),
                 RepeatClassifier_init(<<>>)}
    /\ last = NoCall(self)
    /\ fitlog = NoFit
    /\ input \in [y : Matrices, subset : Subsets, axis : AxisValues]

\* self.generate_data_subset(y, subset, axis); yAfter is the caller's y after the call
GenerateDataSubset ==
    LET res == generate_data_subset(self, input.y, input.subset, input.axis)
    IN /\ input # <<>>
       /\ self' = res.self
       /\ last' = Call("generate_data_subset", input, self, res)
       /\ UNCHANGED <<py, fitlog, input>>

NextSubset == GenerateDataSubset

SpecSubset == InitSubset /\ [][NextSubset]_vars

----------------------------------------------------------------------------
(* Properties *)

IsCall(op) == last.op = op

\* the subset lists only indices 0 .. n-1
ValidIndices(subset, n) == \A k \in 1..Len(subset) : 0 <= subset[k] /\ subset[k] < n

\* C1: on a RepeatClassifier, fit(X, y) with a non-empty y returns, and a predict(X2)
\* after it returns a sequence of as many elements as X2 has samples, each equal to
\* row 0 of that y.
C1_FitThenPredictRepeatsRow0 ==
    self.cls = "RepeatClassifier" =>
        /\ (IsCall("fit") /\ last.args.y.nrows > 0) => last.outcome = "return"
        /\ (IsCall("predict") /\ fitlog.called /\ fitlog.row0 # <<>>) =>
              /\ last.outcome = "return"
              /\ Len(last.val) = last.args.X.n
              /\ \A i \in 1..Len(last.val) : DenseRow(last.val[i], 0) = fitlog.row0[1]

\* the key under which get_params reports the inner estimator's parameter k
PrefixedKey(k) ==
    CASE k = "C" -> "classifier__C"
      [] k = "kernel" -> "classifier__kernel"
      [] OTHER -> "classifier__"

\* the mapping get_params(deep=True) is to return for an instance
DeepParams(obj) ==
    LET inner == InnerParams(obj.classifier)
    IN [key \in {"classifier", "require_dense"} \cup {PrefixedKey(k) : k \in DOMAIN inner} |->
           IF key = "classifier" THEN obj.classifier
           ELSE IF key = "require_dense" THEN obj.require_dense
           ELSE inner[CHOOSE k \in DOMAIN inner : PrefixedKey(k) = key]]

\* C2: set_params with at least one of the parameters classifier and require_dense
\* returns the instance itself, and a get_params() after it maps each parameter
\* given to the value given.
C2_SetParamsThenGetParams ==
    (IsCall("set_params") /\ DOMAIN last.args.parameters # {}) =>
        /\ last.outcome = "return" /\ last.val = "self"
        /\ LET got == get_params(self, TRUE)
           IN /\ got.outcome = "return"
              /\ \A k \in DOMAIN last.args.parameters :
                     got.val[k] = last.args.parameters[k]

\* C3: get_params(deep=False) returns a mapping of exactly the keys classifier and
\* require_dense, to the instance's inner estimator and flag, and leaves the
\* instance as it was.
C3_ShallowParams ==
    (IsCall("get_params") /\ ~last.args.deep) =>
        /\ last.outcome = "return"
        /\ DOMAIN last.val = {"classifier", "require_dense"}
        /\ last.val["classifier"] = last.pre.classifier
        /\ last.val["require_dense"] = last.pre.require_dense
        /\ self = last.pre

C3_Witness ==
    /\ IsCall("get_params") /\ ~last.args.deep /\ last.outcome = "return"
    /\ self.cls = "MLClassifierBase"
    /\ self.classifier = "SVC" /\ self.require_dense = "True"

\* C4: get_params(deep=True) on an instance whose inner estimator has get_params
\* returns the two own entries and one entry classifier__k per parameter k of the
\* inner estimator, and nothing else.
C4_DeepParamsFlattened ==
    (IsCall("get_params") /\ last.args.deep /\ HasGetParams(last.pre.classifier)) =>
        /\ last.outcome = "return"
        /\ last.val = DeepParams(last.pre)

\* C5: generate_data_subset(y, S, axis=0) with S listing valid row indices returns a
\* matrix of |S| rows and as many columns as y, whose i-th row is row S[i] of y, and
\* the caller's y is as it was.
C5_RowSubset ==
    (IsCall("generate_data_subset") /\ last.args.axis = 0
        /\ ValidIndices(last.args.subset, last.args.y.nrows)) =>
        /\ last.outcome = "return"
        /\ last.val.nrows = Len(last.args.subset)
        /\ last.val.ncols = last.args.y.ncols
        /\ \A i \in 1..Len(last.args.subset) :
               DenseRow(last.val, i - 1) = DenseRow(last.args.y, last.args.subset[i])
        /\ input.y = last.args.y

C5_Witness ==
    /\ IsCall("generate_data_subset") /\ last.args.axis = 0 /\ last.outcome = "return"
    /\ last.args.y.fmt = "csc"
    /\ last.args.subset = <<1, 0>>
    /\ last.args.y.nrows = 2 /\ last.args.y.ncols = 2
    /\ DenseRow(last.args.y, 0) # DenseRow(last.args.y, 1)

\* C6: generate_data_subset(y, S, axis=1) with S listing valid column indices returns
\* a matrix of |S| columns and as many rows as y, whose j-th column is column S[j] of
\* y, and the caller's y is as it was.
C6_ColumnSubset ==
    (IsCall("generate_data_subset") /\ last.args.axis = 1
        /\ ValidIndices(last.args.subset, last.args.y.ncols)) =>
        /\ last.outcome = "return"
        /\ last.val.ncols = Len(last.args.subset)
        /\ last.val.nrows = last.args.y.nrows
        /\ \A j \in 1..Len(last.args.subset) :
               DenseCol(last.val, j - 1) = DenseCol(last.args.y, last.args.subset[j])
        /\ input.y = last.args.y

C6_Witness ==
    /\ IsCall("generate_data_subset") /\ last.args.axis = 1 /\ last.outcome = "return"
    /\ last.args.y.fmt = "csr"
    /\ last.args.subset = <<1, 1>>
    /\ last.args.y.nrows = 2 /\ last.args.y.ncols = 2
    /\ DenseCol(last.args.y, 0) # DenseCol(last.args.y, 1)

\* C7: generate_data_subset with an axis other than 0 and 1 ends in an error and
\* returns nothing to the caller.
C7_InvalidAxisFails ==
    (IsCall("generate_data_subset") /\ last.args.axis \notin {0, 1}) =>
        last.outcome = "raise"

\* C8: fit and predict on an instance of the abstract base class end in
\* NotImplementedError, and the instance is as it was before the call.
C8_AbstractMethodsRaise ==
    (self.cls = "MLClassifierBase" /\ (IsCall("fit") \/ IsCall("predict"))) =>
        /\ last.outcome = "raise"
        /\ last.exc = "NotImplementedError"
        /\ self = last.pre

C8_Witness ==
    /\ self.cls = "MLClassifierBase" /\ IsCall("fit")
    /\ last.exc = "NotImplementedError"
    /\ last.args.y.nrows = 2 /\ last.args.X.n = 1
    /\ self.classifier = "SVC"

\* C9: predict on a RepeatClassifier on which no fit has returned ends in an error,
\* whatever X is.
C9_PredictBeforeFitFails ==
    (self.cls = "RepeatClassifier" /\ IsCall("predict") /\ ~fitlog.returned) =>
        last.outcome = "raise"

\* C10: on a RepeatClassifier a fit with a non-empty y returns and leaves the
\* instance trained; once a fit was made value_to_repeat is row 0 of the latest
\* fit's y; predict leaves value_to_repeat alone; a trained instance stays trained.
C10_Lifecycle ==
    self.cls = "RepeatClassifier" =>
        /\ (IsCall("fit") /\ last.args.y.nrows > 0) =>
              last.outcome = "return" /\ self.value_to_repeat.set
        /\ (fitlog.called /\ fitlog.row0 # <<>>) =>
              /\ self.value_to_repeat.set
              /\ DenseRow(self.value_to_repeat.val, 0) = fitlog.row0[1]
        /\ IsCall("predict") => self.value_to_repeat = last.pre.value_to_repeat
        /\ last.pre.value_to_repeat.set => self.value_to_repeat.set

====
